---- MODULE Spec2Model ----
(***************************************************************************)
(* A model of calculator.py: the expression parser (EXPR_RE and            *)
(* parse_expression), the evaluator (evaluate), the result formatting and  *)
(* the command dispatch of interactive_loop, run_tests and main.           *)
(*                                                                         *)
(* Text is a sequence of one-character strings.  A printed line is a       *)
(* sequence of pieces (strings) whose concatenation is the line.           *)
(***************************************************************************)
EXTENDS Integers, Sequences, FiniteSets, TLC

VARIABLES pc, argv, line, text, parsed, evald, out, oscmd, status, call

vars == <<pc, argv, line, text, parsed, evald, out, oscmd, status, call>>

(***************************************************************************)
(* Bounds of the model.                                                    *)
(***************************************************************************)
\* Longest input line enumerated exhaustively over Alphabet.
MaxLen == 4

(***************************************************************************)
(* Characters.                                                             *)
(***************************************************************************)
\* One symbol standing for a run of 400 consecutive '9' digits: a digit
\* string this long exceeds the largest 64-bit float (309 digits), which is
\* the only way a line accepted by EXPR_RE can denote an infinite float.
Nines == "9{400}"

Digit == {"0", "1", "2", "3", "4", "5", "6", "7", "8", "9", Nines}

Sign == {"-", "+"}

Point == {"."}

\* The operator class [+\-*/] of EXPR_RE.
OpChars == {"+", "-", "*", "/"}

\* \s of the regular expression and the characters str.strip() removes.
WS == {" ", "\t"}

DigitVal(c) ==
    CASE c = "0" -> 0 [] c = "1" -> 1 [] c = "2" -> 2 [] c = "3" -> 3
      [] c = "4" -> 4 [] c = "5" -> 5 [] c = "6" -> 6 [] c = "7" -> 7
      [] c = "8" -> 8 [] c = "9" -> 9

DigitChar(n) == <<"0", "1", "2", "3", "4", "5", "6", "7", "8", "9">>[n + 1]

\* str.lower() on one character (the letters the inputs use).
LowerChar(c) ==
    CASE c = "A" -> "a" [] c = "B" -> "b" [] c = "C" -> "c" [] c = "D" -> "d"
      [] c = "E" -> "e" [] c = "F" -> "f" [] c = "G" -> "g" [] c = "H" -> "h"
      [] c = "I" -> "i" [] c = "J" -> "j" [] c = "K" -> "k" [] c = "L" -> "l"
      [] c = "M" -> "m" [] c = "N" -> "n" [] c = "O" -> "o" [] c = "P" -> "p"
      [] c = "Q" -> "q" [] c = "R" -> "r" [] c = "S" -> "s" [] c = "T" -> "t"
      [] c = "U" -> "u" [] c = "V" -> "v" [] c = "W" -> "w" [] c = "X" -> "x"
      [] c = "Y" -> "y" [] c = "Z" -> "z" [] OTHER -> c

Lower(s) == [i \in 1..Len(s) |-> LowerChar(s[i])]

Min(S) == CHOOSE x \in S : \A y \in S : x <= y

Max(S) == CHOOSE x \in S : \A y \in S : x >= y

\* str.strip(): drop the whitespace at both ends.
Strip(s) ==
    LET keep == {i \in 1..Len(s) : s[i] \notin WS}
    IN  IF keep = {} THEN <<>> ELSE SubSeq(s, Min(keep), Max(keep))

(***************************************************************************)
(* Floats.  A finite float is the exact rational n/d in lowest terms       *)
(* (d > 0); the sign of zero is not kept (-0.0 == 0 and int(-0.0) == 0, so *)
(* no branch of the program tells them apart).  Infinite and NaN results   *)
(* are kept apart, because int() raises on them.                           *)
(***************************************************************************)
Gcd[x \in Nat, y \in Nat] == IF y = 0 THEN x ELSE Gcd[y, x % y]

Abs(x) == IF x < 0 THEN -x ELSE x

Fin(n, d) ==
    LET g == Gcd[Abs(n), Abs(d)]
        s == IF d < 0 THEN -1 ELSE 1
    IN  [k |-> "fin", n |-> (s * n) \div g, d |-> (s * d) \div g]

Inf(sgn) == [k |-> "inf", n |-> sgn, d |-> 0]

NaN == [k |-> "nan", n |-> 0, d |-> 0]

SignOf(v) == IF v.n > 0 THEN 1 ELSE IF v.n < 0 THEN -1 ELSE 0

IsZero(v) == v.k = "fin" /\ v.n = 0

Neg(v) == [v EXCEPT !.n = -v.n]

\* IEEE-754 addition as Python's float.__add__ gives it.
FAdd(a, b) ==
    CASE a.k = "nan" \/ b.k = "nan" -> NaN
      [] a.k = "inf" /\ b.k = "inf" -> IF a.n = b.n THEN a ELSE NaN
      [] a.k = "inf" -> a
      [] b.k = "inf" -> b
      [] OTHER -> Fin(a.n * b.d + b.n * a.d, a.d * b.d)

FSub(a, b) == FAdd(a, Neg(b))

FMul(a, b) ==
    CASE a.k = "nan" \/ b.k = "nan" -> NaN
      [] a.k = "inf" \/ b.k = "inf" ->
            IF SignOf(a) * SignOf(b) = 0 THEN NaN ELSE Inf(SignOf(a) * SignOf(b))
      [] OTHER -> Fin(a.n * b.n, a.d * b.d)

\* a / b for b # 0 (evaluate tests b == 0 before dividing).
FDiv(a, b) ==
    CASE a.k = "nan" \/ b.k = "nan" -> NaN
      [] a.k = "inf" /\ b.k = "inf" -> NaN
      [] a.k = "inf" -> Inf(SignOf(a) * SignOf(b))
      [] b.k = "inf" -> Fin(0, 1)
      [] OTHER -> Fin(a.n * b.d, a.d * b.n)

\* 10^n
Pow10[n \in Nat] == IF n = 0 THEN 1 ELSE 10 * Pow10[n - 1]

\* The integer a digit string denotes.
DigitsVal(s) ==
    LET val[i \in 0..Len(s)] == IF i = 0 THEN 0 ELSE 10 * val[i - 1] + DigitVal(s[i])
    IN  val[Len(s)]

\* The index of the first occurrence of c in s, Len(s) + 1 when there is none.
IndexOf(s, c) == Min({i \in 1..Len(s) : s[i] = c} \cup {Len(s) + 1})

\* The float of sign sgn whose digits are ip before the point and fp after
\* it, rounded to the nearest float.  A run of nines among the integer
\* digits overflows to infinity; among the fraction digits it lies within
\* half an ulp of the next digit up, so the digits before it are rounded up
\* in the last place and the digits after it cannot matter.
Nearest(sgn, ip, fp) ==
    IF Nines \in {ip[i] : i \in 1..Len(ip)}
    THEN Inf(sgn)
    ELSE LET q  == IndexOf(fp, Nines)
             fd == SubSeq(fp, 1, q - 1)
             up == IF q <= Len(fp) THEN 1 ELSE 0
         IN  Fin(sgn * (DigitsVal(ip) * Pow10[Len(fd)] + DigitsVal(fd) + up),
                 Pow10[Len(fd)])

\* float(tok) for a token NUMBER_EXPR matched: sign, integer digits, point,
\* fraction digits.
float(tok) ==
    LET body == IF Head(tok) \in Sign THEN Tail(tok) ELSE tok
        p    == IndexOf(body, ".")
    IN  Nearest(IF Head(tok) = "-" THEN -1 ELSE 1,
                SubSeq(body, 1, p - 1), SubSeq(body, p + 1, Len(body)))

(***************************************************************************)
(* EXPR_RE, matched as a regular-expression engine does: the sets of       *)
(* positions each sub-pattern can end at.  A position i is "before s[i]";  *)
(* Len(s) + 1 is the end of the text.                                      *)
(***************************************************************************)
\* C* from position i: every j with s[i..j-1] all of class C.
Star(s, i, C) ==
    {j \in i..(Len(s) + 1) : \A x \in i..(j - 1) : s[x] \in C}

\* C? from position i.
Opt(s, i, C) == {i} \cup {j \in {i + 1} : i <= Len(s) /\ s[i] \in C}

\* C+ from position i.
Plus(s, i, C) == Star(s, i, C) \ {i}

\* Variant: [-+]?\d+\.?\d* , the digits required before the point.
NUMBER_EXPR_DigitsFirst(s, i) ==
    UNION {UNION {UNION {Star(s, c, Digit)
                : c \in Opt(s, b, Point)}
                : b \in Plus(s, a, Digit)}
                : a \in Opt(s, i, Sign)}

\* Variant: \d*\.?\d+ , no sign.
NUMBER_EXPR_Unsigned(s, i) ==
    UNION {UNION {Plus(s, c, Digit)
                : c \in Opt(s, b, Point)}
                : b \in Star(s, i, Digit)}

\* NUMBER_EXPR = [-+]?\d*\.?\d+ : the positions a number starting at i can end at.
NUMBER_EXPR(s, i) ==
    UNION {UNION {UNION {Plus(s, c, Digit)
                : c \in Opt(s, b, Point)}
                : b \in Star(s, a, Digit)}
                : a \in Opt(s, i, Sign)}

\* Variant: the pattern without its closing \s*$, matching a prefix of s.
EXPR_RE_Unanchored(s) ==
    UNION {UNION {UNION {UNION {
            {<<i1, j1, k, i2, j2>> : j2 \in NUMBER_EXPR(s, i2)}
                : i2 \in Star(s, k + 1, WS)}
                : k \in {x \in Star(s, j1, WS) : x <= Len(s) /\ s[x] \in OpChars}}
                : j1 \in NUMBER_EXPR(s, i1)}
                : i1 \in Star(s, 1, WS)}

\* Every way ^\s*(NUM)\s*([+\-*/])\s*(NUM)\s*$ matches s, as the positions
\* <<start of group 1, end of group 1, group 2, start of group 3, end of group 3>>.
EXPR_RE(s) ==
    {m \in UNION {UNION {UNION {UNION {
            {<<i1, j1, k, i2, j2>> : j2 \in NUMBER_EXPR(s, i2)}
                : i2 \in Star(s, k + 1, WS)}
                : k \in {x \in Star(s, j1, WS) : x <= Len(s) /\ s[x] \in OpChars}}
                : j1 \in NUMBER_EXPR(s, i1)}
                : i1 \in Star(s, 1, WS)}
        : Len(s) + 1 \in Star(s, m[5], WS)}

\* A message is a sequence of pieces, like a line.
InvalidMsg == <<"Invalid expression. Expected format: <number> <op> <number>">>

Triple(a, op, b) == [tag |-> "ok", a |-> a, op |-> op, b |-> b, msg |-> <<>>]

Raised(exc, msg) == [tag |-> exc, a |-> NaN, op |-> "", b |-> NaN, msg |-> msg]

NoResult == [tag |-> "none", a |-> NaN, op |-> "", b |-> NaN, msg |-> <<>>]

\* parse_expression(text): the groups of the match, the operands through
\* float(); ValueError when EXPR_RE does not match.  (The match of an
\* anchored EXPR_RE is unique, see MatchUnique, so the groups do not depend
\* on the engine's backtracking order.)
parse_expression(s) ==
    LET found == {Triple(float(SubSeq(s, m[1], m[2] - 1)), s[m[3]],
                         float(SubSeq(s, m[4], m[5] - 1))) : m \in EXPR_RE(s)}
    IN  IF found = {} THEN Raised("ValueError", InvalidMsg)
        ELSE CHOOSE t \in found : TRUE

(***************************************************************************)
(* evaluate.                                                               *)
(***************************************************************************)
Returned(v) == [tag |-> "ok", val |-> v, msg |-> <<>>]

Threw(exc, msg) == [tag |-> exc, val |-> NaN, msg |-> msg]

NotEvaluated == [tag |-> "none", val |-> NaN, msg |-> <<>>]

\* Variant: the zero test signals ValueError instead of ZeroDivisionError.
evaluate_ZeroAsValueError(a, op, b) ==
    IF op = "+" THEN Returned(FAdd(a, b))
    ELSE IF op = "-" THEN Returned(FSub(a, b))
    ELSE IF op = "*" THEN Returned(FMul(a, b))
    ELSE IF op = "/" THEN
        IF IsZero(b) THEN Threw("ValueError", <<"Division by zero">>)
        ELSE Returned(FDiv(a, b))
    ELSE Threw("ValueError", <<"Unsupported operator: ", op>>)

\* Variant: the zero test comes before the operator is looked at.
evaluate_ZeroTestFirst(a, op, b) ==
    IF IsZero(b) /\ op \notin {"+", "-", "*"}
    THEN Threw("ZeroDivisionError", <<"Division by zero">>)
    ELSE IF op = "+" THEN Returned(FAdd(a, b))
    ELSE IF op = "-" THEN Returned(FSub(a, b))
    ELSE IF op = "*" THEN Returned(FMul(a, b))
    ELSE IF op = "/" THEN Returned(FDiv(a, b))
    ELSE Threw("ValueError", <<"Unsupported operator: ", op>>)

\* evaluate(a, op, b): the if-chain of the four operators; b == 0 is float
\* equality (false for NaN and for the infinities).
evaluate(a, op, b) ==
    IF op = "+" THEN Returned(FAdd(a, b))
    ELSE IF op = "-" THEN Returned(FSub(a, b))
    ELSE IF op = "*" THEN Returned(FMul(a, b))
    ELSE IF op = "/" THEN
        IF IsZero(b) THEN Threw("ZeroDivisionError", <<"Division by zero">>)
        ELSE Returned(FDiv(a, b))
    ELSE Threw("ValueError", <<"Unsupported operator: ", op>>)

(***************************************************************************)
(* Number to text.                                                         *)
(***************************************************************************)
\* str(n) of an int n: the decimal digits, '-' first when negative.
NatToStr[n \in Nat] ==
    IF n < 10 THEN <<DigitChar(n)>> ELSE NatToStr[n \div 10] \o <<DigitChar(n % 10)>>

IntToStr(n) == IF n < 0 THEN <<"-">> \o NatToStr[-n] ELSE NatToStr[n]

\* int(v) of a finite float: truncation toward zero.
Trunc(v) == IF v.n >= 0 THEN v.n \div v.d ELSE -((-v.n) \div v.d)

\* The most significant digits repr() emits (17 identify any 64-bit float).
ReprDigits == 17

\* The decimal exponent of n/d > 0: the e with 10^(e-1) <= n/d < 10^e.
Decpt[n \in Nat, d \in Nat] ==
    IF n >= d THEN 1 + Decpt[n, 10 * d]
    ELSE IF 10 * n < d THEN Decpt[10 * n, d] - 1
    ELSE 0

\* The digits of r/d (0 <= r < d) after the point, by long division, until
\* the remainder is zero or k digits are out.
LongDiv[r \in Nat, d \in Nat, k \in Nat] ==
    IF r = 0 \/ k = 0 THEN <<>>
    ELSE <<DigitChar((10 * r) \div d)>> \o LongDiv[(10 * r) % d, d, k - 1]

\* A finite float as repr() sees it: sign, significant digits, and the
\* position of the decimal point (the value is 0.d1d2... * 10^decpt).  The
\* digits are exact when the expansion ends within ReprDigits digits; a
\* longer expansion is cut there (the float's own last digits may differ).
Dec(neg, digits, decpt) == [neg |-> neg, digits |-> digits, decpt |-> decpt]

ToDec(v) ==
    IF v.n = 0 THEN Dec(FALSE, <<"0">>, 1)
    ELSE CHOOSE x \in
            {Dec(v.n < 0,
                 LongDiv[IF e < 0 THEN Abs(v.n) * Pow10[-e] ELSE Abs(v.n),
                         IF e > 0 THEN v.d * Pow10[e] ELSE v.d,
                         ReprDigits],
                 e) : e \in {Decpt[Abs(v.n), v.d]}} : TRUE

Zeros(k) == [i \in 1..k |-> "0"]

\* repr() of a finite float from its digits: exponent notation when
\* decpt <= -4 or decpt > 16, positional notation with at least one digit
\* after the point otherwise.
FormatDec(x) ==
    LET ds == x.digits
        nd == Len(ds)
        e  == x.decpt - 1
        body ==
            IF x.decpt <= -4 \/ x.decpt > 16
            THEN <<ds[1]>> \o (IF nd > 1 THEN <<".">> \o Tail(ds) ELSE <<>>)
                 \o <<"e", IF e < 0 THEN "-" ELSE "+">>
                 \o (IF Abs(e) < 10 THEN <<"0">> ELSE <<>>) \o NatToStr[Abs(e)]
            ELSE IF x.decpt <= 0 THEN <<"0", ".">> \o Zeros(-x.decpt) \o ds
            ELSE IF x.decpt >= nd THEN ds \o Zeros(x.decpt - nd) \o <<".", "0">>
            ELSE SubSeq(ds, 1, x.decpt) \o <<".">> \o SubSeq(ds, x.decpt + 1, nd)
    IN  (IF x.neg THEN <<"-">> ELSE <<>>) \o body

\* repr(v) of a float, the text print(result) writes.
FloatRepr(v) ==
    CASE v.k = "nan" -> <<"n", "a", "n">>
      [] v.k = "inf" -> (IF v.n < 0 THEN <<"-">> ELSE <<>>) \o <<"i", "n", "f">>
      [] OTHER -> FormatDec(ToDec(v))

(***************************************************************************)
(* Inputs.                                                                 *)
(***************************************************************************)
Alphabet == {"0", "1", ".", "-", "/", " ", "%", Nines}

\* Every line of at most MaxLen characters over Alphabet.
Lines == UNION {[1..n -> Alphabet] : n \in 0..MaxLen}

\* Longer lines: the commands in several letter cases, the lines of the
\* documentation and of run_tests, the spellings of zero, and lines of the
\* wrong shape.
SampleLines ==
    { <<"e", "x", "i", "t">>, <<"E", "X", "I", "T">>, <<" ", "E", "x", "i", "t", "\t">>,
      <<"q", "u", "i", "t">>, <<"Q", "u", "I", "t">>,
      <<"h", "e", "l", "p">>, <<"H", "E", "L", "P", " ">>,
      <<"c", "l", "e", "a", "r">>, <<" ", "C", "l", "E", "a", "R">>,
      <<"e", "x", "i", "t", "s">>, <<"b", "a", "n", "a", "n", "a">>,
      <<"1", "2", " ", "+", " ", "3">>, <<"1", "2", " ", "+", " ", "3", ".", "5">>,
      <<"4", " ", "*", " ", "2", ".", "5">>,
      <<" ", " ", "-", "2", ".", "5", " ", "*", " ", "4">>,
      <<"1", " ", "/", " ", "0">>, <<"1", " ", "/", " ", "0", ".", "0">>,
      <<"5", " ", "/", " ", "-", "0">>, <<"-", "1", "/", "+", "0", ".", "0">>,
      <<"1", " ", "-", " ", "-", "2">>, <<"9", " ", "/", " ", "3">>,
      <<"5", " ", "-", " ", "3">>, <<"1", " ", "/", " ", "3">>,
      <<"5", ".", " ", "+", " ", "1">>, <<"1", " ", "+", " ", "5", ".">>,
      <<".", "5", "\t", "+", "\t", "5">>, <<"-", "5", ".", "2", "5", "*", "+", ".", "5">>,
      <<"1", " ", "+", " ", "2", " ", "+", " ", "3">>, <<"1", " ", "%", " ", "2">>,
      <<"1", " ", "+", " ", "x">>, <<"1", "e", "5", " ", "+", " ", "1">>,
      <<Nines, " ", "*", " ", "1", ".", "5">>, <<"1", " ", "/", " ", "0", ".", "0", "1">> }

Inputs == Lines \cup SampleLines

\* Arguments main is given.
Argvs == {<<>>, <<"--test">>, <<"-v", "--test">>, <<"--tests", "-v">>}

\* Floats given to evaluate in a direct call.
Values ==
    {Fin(0, 1), Fin(1, 1), Fin(-2, 1), Fin(5, 2), Fin(-1, 3), Inf(1), Inf(-1), NaN}

\* Operators given to evaluate in a direct call.
OpArgs == OpChars \cup {"%", "^", "**", "", "x"}

(***************************************************************************)
(* Output.                                                                 *)
(***************************************************************************)
\* print_help(): the lines it writes.
print_help ==
    << <<"Commands:">>,
       <<"  Type an expression like: 12 + 3">>,
       <<"  Supported operators: +  -  *  /">>,
       <<"  clear  : clear the screen">>,
       <<"  exit   : quit the program">>,
       <<"  --test : run built-in tests and exit">> >>

\* clear_screen(): the command os.system runs, by os.name.
clear_screen(osname) == IF osname = "nt" THEN "cls" ELSE "clear"

OsNames == {"nt", "posix"}

\* print(f'Error: {msg}')
ErrorLine(msg) == <<"Error: ">> \o msg

IsErrorLine(l) == l # <<>> /\ l[1] = "Error: "

\* Lines 112-115: `result == int(result)` and the print of its branch.
\* int() raises OverflowError on an infinity and ValueError on a NaN.
Display(result) ==
    CASE result.k = "inf" ->
            [exc |-> "OverflowError", msg |-> <<"cannot convert float infinity to integer">>,
             line |-> <<>>]
      [] result.k = "nan" ->
            [exc |-> "ValueError", msg |-> <<"cannot convert float NaN to integer">>,
             line |-> <<>>]
      [] OTHER ->
            [exc |-> "", msg |-> <<>>,
             line |-> IF result = Fin(Trunc(result), 1)
                      THEN IntToStr(Trunc(result))
                      ELSE FloatRepr(result)]

NoDisplay == [exc |-> "", msg |-> <<>>, line |-> <<>>]

\* Lines 107-119, the two except clauses: what the iteration prints, given
\* what parse_expression (p), evaluate (ev) and the display (d) did.
Printed(p, ev, d) ==
    IF p.tag = "ValueError" THEN <<ErrorLine(p.msg)>>
    ELSE IF ev.tag = "ZeroDivisionError" THEN <<ErrorLine(<<"Division by zero">>)>>
    ELSE IF ev.tag = "ValueError" THEN <<ErrorLine(ev.msg)>>
    ELSE IF d.exc = "ValueError" THEN <<ErrorLine(d.msg)>>
    ELSE IF d.exc = "" THEN <<d.line>>
    ELSE <<>>

\* The exception neither except clause catches ("" when there is none):
\* `except ZeroDivisionError` and `except ValueError` are the only clauses.
Uncaught(p, ev, d) ==
    IF p.tag \notin {"ok", "ValueError"} THEN p.tag
    ELSE IF ev.tag \notin {"none", "ok", "ValueError", "ZeroDivisionError"} THEN ev.tag
    ELSE IF d.exc \notin {"", "ValueError"} THEN d.exc
    ELSE ""

(***************************************************************************)
(* run_tests and main.                                                     *)
(***************************************************************************)
tests_total == 6

Range(f) == {f[i] : i \in DOMAIN f}

\* The five asserts of run_tests, in order (a call that raises fails its check).
Checks ==
    << evaluate(Fin(1, 1), "+", Fin(2, 1)) = Returned(Fin(3, 1)),
       evaluate(Fin(5, 1), "-", Fin(3, 1)) = Returned(Fin(2, 1)),
       evaluate(Fin(4, 1), "*", Fin(5, 2)) = Returned(Fin(10, 1)),
       evaluate(Fin(9, 1), "/", Fin(3, 1)) = Returned(Fin(3, 1)),
       parse_expression(<<" ", " ", "-", "2", ".", "5", " ", "*", " ", "4">>)
            = Triple(Fin(-5, 2), "*", Fin(4, 1)) >>

\* run_tests() given the asserts that fail and what evaluate(1, '/', 0) did:
\* the first failing assert aborts the run; the last check counts only a
\* ZeroDivisionError (another exception leaves run_tests); then the report
\* line and the return value.
TestRun(failing, last) ==
    LET aborted == failing # {} \/ last.tag \notin {"ok", "ZeroDivisionError"}
        tests_passed ==
            IF failing # {} THEN Min(failing) - 1
            ELSE IF last.tag = "ZeroDivisionError" THEN Len(Checks) + 1
            ELSE Len(Checks)
    IN  [aborted |-> aborted,
         tests_passed |-> tests_passed,
         out |-> IF aborted THEN <<>>
                 ELSE << <<"Ran ">> \o IntToStr(tests_total) \o <<" tests: ">>
                         \o IntToStr(tests_passed) \o <<" passed, ">>
                         \o IntToStr(tests_total - tests_passed) \o <<" failed">> >>,
         ret |-> IF tests_passed = tests_total THEN 0 ELSE 1]

run_tests ==
    CHOOSE r \in {TestRun(failing, last) :
                    failing \in {{i \in DOMAIN Checks : ~Checks[i]}},
                    last \in {evaluate(Fin(1, 1), "/", Fin(0, 1))}} : TRUE

\* Variant: only the first argument is looked at.
main_FirstArgOnly(av) ==
    IF av # <<>> /\ av[1] = "--test" THEN "run_tests" ELSE "interactive_loop"

\* main(argv): which mode the arguments select.
main(av) == IF "--test" \in Range(av) THEN "run_tests" ELSE "interactive_loop"

\* Variant: the commands compared without lower().
Dispatch_CaseSensitive(t) ==
    IF t = <<>> THEN "empty"
    ELSE IF t \in {<<"e", "x", "i", "t">>, <<"q", "u", "i", "t">>} THEN "exit"
    ELSE IF t = <<"h", "e", "l", "p">> THEN "help"
    ELSE IF t = <<"c", "l", "e", "a", "r">> THEN "clear"
    ELSE "expr"

\* Lines 94-107: what the if-chain of interactive_loop does with a stripped line.
Dispatch(t) ==
    IF t = <<>> THEN "empty"
    ELSE IF Lower(t) \in {<<"e", "x", "i", "t">>, <<"q", "u", "i", "t">>} THEN "exit"
    ELSE IF Lower(t) = <<"h", "e", "l", "p">> THEN "help"
    ELSE IF Lower(t) = <<"c", "l", "e", "a", "r">> THEN "clear"
    ELSE "expr"

(***************************************************************************)
(* The state machine.                                                      *)
(*   pc     "start"     before main (or a direct call) runs                *)
(*          "input"     interactive_loop is blocked in input()             *)
(*          "iter"      an iteration's body has run; the loop is about to   *)
(*                      go round                                           *)
(*          "done"      main returned and the process exited with `status` *)
(*          "crashed"   an exception left main; the process exited with    *)
(*                      `status` after the traceback                       *)
(*          "returned"  a direct call of a function returned or raised     *)
(*   line   what input() returned                                          *)
(*   text, parsed, evald   the line stripped, what parse_expression and    *)
(*                      evaluate gave for it                               *)
(*   out    the lines written to standard output by the last step          *)
(*   oscmd  the commands given to os.system by the last step               *)
(*   call   the function and arguments of a direct call                    *)
(***************************************************************************)
Running == -1

NoCall == [f |-> "none", a |-> 0, op |-> "", b |-> 0]

Init ==
    /\ pc = "start"
    /\ argv = <<>>
    /\ line = <<>>
    /\ text = <<>>
    /\ parsed = NoResult
    /\ evald = NotEvaluated
    /\ out = <<>>
    /\ oscmd = <<>>
    /\ status = Running
    /\ call = NoCall

\* main with --test among the arguments: run_tests, then exit with its value;
\* a failed assert leaves main as an exception (exit status 1).
MainTest ==
    /\ pc = "start"
    /\ \E av \in Argvs :
        /\ main(av) = "run_tests"
        /\ argv' = av
        /\ \E r \in {run_tests} :
               /\ out' = r.out
               /\ pc' = IF r.aborted THEN "crashed" ELSE "done"
               /\ status' = IF r.aborted THEN 1 ELSE r.ret
    /\ UNCHANGED <<line, text, parsed, evald, oscmd, call>>

\* main without --test: interactive_loop prints the banner and the help and
\* waits for the first line.
MainInteractive ==
    /\ pc = "start"
    /\ \E av \in Argvs :
        /\ main(av) = "interactive_loop"
        /\ argv' = av
    /\ out' = << <<"Simple CLI Calculator">> >> \o print_help
    /\ pc' = "input"
    /\ UNCHANGED <<line, text, parsed, evald, oscmd, status, call>>

\* input() raises EOFError or KeyboardInterrupt.
ReadFail ==
    /\ pc = "input"
    /\ out' = << <<"\nExiting.">> >>
    /\ pc' = "done"
    /\ status' = 0
    /\ line' = <<>> /\ text' = <<>>
    /\ parsed' = NoResult /\ evald' = NotEvaluated /\ oscmd' = <<>>
    /\ UNCHANGED <<argv, call>>

\* An empty line: `continue`.
LineEmpty ==
    /\ pc = "input"
    /\ \E raw \in Inputs :
        /\ Dispatch(Strip(raw)) = "empty"
        /\ line' = raw
        /\ text' = Strip(raw)
    /\ out' = <<>>
    /\ pc' = "iter"
    /\ parsed' = NoResult /\ evald' = NotEvaluated /\ oscmd' = <<>>
    /\ UNCHANGED <<argv, status, call>>

\* exit or quit: print 'Goodbye.' and return; main returns 0.
LineExit ==
    /\ pc = "input"
    /\ \E raw \in Inputs :
        /\ Dispatch(Strip(raw)) = "exit"
        /\ line' = raw
        /\ text' = Strip(raw)
    /\ out' = << <<"Goodbye.">> >>
    /\ pc' = "done"
    /\ status' = 0
    /\ parsed' = NoResult /\ evald' = NotEvaluated /\ oscmd' = <<>>
    /\ UNCHANGED <<argv, call>>

\* help: print_help() and `continue`.
LineHelp ==
    /\ pc = "input"
    /\ \E raw \in Inputs :
        /\ Dispatch(Strip(raw)) = "help"
        /\ line' = raw
        /\ text' = Strip(raw)
    /\ out' = print_help
    /\ pc' = "iter"
    /\ parsed' = NoResult /\ evald' = NotEvaluated /\ oscmd' = <<>>
    /\ UNCHANGED <<argv, status, call>>

\* clear: clear_screen() and `continue`.
LineClear ==
    /\ pc = "input"
    /\ \E raw \in Inputs, osname \in OsNames :
        /\ Dispatch(Strip(raw)) = "clear"
        /\ line' = raw
        /\ text' = Strip(raw)
        /\ oscmd' = <<clear_screen(osname)>>
    /\ out' = <<>>
    /\ pc' = "iter"
    /\ parsed' = NoResult /\ evald' = NotEvaluated
    /\ UNCHANGED <<argv, status, call>>

\* Any other line: parse, evaluate and print; an exception neither except
\* clause catches leaves interactive_loop and main.
LineExpr ==
    /\ pc = "input"
    /\ \E raw \in Inputs : \E t \in {Strip(raw)} :
        /\ Dispatch(t) = "expr"
        /\ line' = raw
        /\ text' = t
        /\ \E p \in {parse_expression(t)} :
           \E ev \in {IF p.tag = "ok" THEN evaluate(p.a, p.op, p.b) ELSE NotEvaluated} :
           \E d \in {IF ev.tag = "ok" THEN Display(ev.val) ELSE NoDisplay} :
               /\ parsed' = p
               /\ evald' = ev
               /\ out' = Printed(p, ev, d)
               /\ pc' = IF Uncaught(p, ev, d) = "" THEN "iter" ELSE "crashed"
               /\ status' = IF Uncaught(p, ev, d) = "" THEN status ELSE 1
    /\ oscmd' = <<>>
    /\ UNCHANGED <<argv, call>>

\* The loop goes round: the iteration's values are dead, input() is called.
LoopBack ==
    /\ pc = "iter"
    /\ pc' = "input"
    /\ line' = <<>> /\ text' = <<>>
    /\ parsed' = NoResult /\ evald' = NotEvaluated
    /\ out' = <<>> /\ oscmd' = <<>>
    /\ UNCHANGED <<argv, status, call>>

\* evaluate called directly (as run_tests and importers of the module do).
CallEvaluate ==
    /\ pc = "start"
    /\ \E a \in Values, op \in OpArgs, b \in Values :
        /\ call' = [f |-> "evaluate", a |-> a, op |-> op, b |-> b]
        /\ evald' = evaluate(a, op, b)
    /\ pc' = "returned"
    /\ UNCHANGED <<argv, line, text, parsed, out, oscmd, status>>

Next ==
    \/ MainTest
    \/ MainInteractive
    \/ ReadFail
    \/ LineEmpty
    \/ LineExit
    \/ LineHelp
    \/ LineClear
    \/ LineExpr
    \/ LoopBack
    \/ CallEvaluate

Spec == Init /\ [][Next]_vars

(***************************************************************************)
(* parse_expression called directly, on any line and on the canonical      *)
(* text f"{a} {op} {b}" of two numbers.                                    *)
(***************************************************************************)
\* A Python number: an int n, or a float given by the digits repr() shows
\* (kind "fin"), an infinity (digits.neg is its sign) or a NaN.
IntNum(n) == [t |-> "int", k |-> "fin", n |-> n, digits |-> Dec(FALSE, <<>>, 0)]

FloatNum(neg, ds, decpt) ==
    [t |-> "float", k |-> "fin", n |-> 0, digits |-> Dec(neg, ds, decpt)]

InfNum(neg) == [t |-> "float", k |-> "inf", n |-> 0, digits |-> Dec(neg, <<>>, 0)]

NaNNum == [t |-> "float", k |-> "nan", n |-> 0, digits |-> Dec(FALSE, <<>>, 0)]

\* 1, -2, 0, 12, 2.5, -2.5, 1.0, 0.0, 100.0, 0.5, -0.05, 0.001, 0.0001,
\* 123456.0, 1e-05, 1.5e-07, 1e+16, -1.2e+22, 1.5e+300, inf, -inf, nan.
Numbers ==
    { IntNum(1), IntNum(-2), IntNum(0), IntNum(12),
      FloatNum(FALSE, <<"2", "5">>, 1), FloatNum(TRUE, <<"2", "5">>, 1),
      FloatNum(FALSE, <<"1">>, 1), FloatNum(FALSE, <<"0">>, 1),
      FloatNum(FALSE, <<"1">>, 3), FloatNum(FALSE, <<"5">>, 0),
      FloatNum(TRUE, <<"5">>, -1), FloatNum(FALSE, <<"1">>, -2),
      FloatNum(FALSE, <<"1">>, -3),
      FloatNum(FALSE, <<"1", "2", "3", "4", "5", "6">>, 6),
      FloatNum(FALSE, <<"1">>, -4), FloatNum(FALSE, <<"1", "5">>, -6),
      FloatNum(FALSE, <<"1">>, 17), FloatNum(TRUE, <<"1", "2">>, 23),
      FloatNum(FALSE, <<"1", "5">>, 301),
      InfNum(FALSE), InfNum(TRUE), NaNNum }

\* f"{x}": str() of an int, repr() of a float.
Str(x) ==
    CASE x.t = "int" -> IntToStr(x.n)
      [] x.k = "nan" -> FloatRepr(NaN)
      [] x.k = "inf" -> FloatRepr(Inf(IF x.digits.neg THEN -1 ELSE 1))
      [] OTHER -> FormatDec(x.digits)

\* x == v in Python, for a number x and a float v parse_expression returned.
Same(x, v) ==
    CASE x.t = "int" -> v = Fin(x.n, 1)
      [] x.k = "nan" -> FALSE
      [] x.k = "inf" -> v = Inf(IF x.digits.neg THEN -1 ELSE 1)
      [] OTHER -> v.k = "fin" /\ ToDec(v) = x.digits

CallParse ==
    /\ pc = "start"
    /\ \E s \in Inputs :
        /\ text' = s
        /\ parsed' = parse_expression(s)
    /\ call' = [f |-> "parse_expression", a |-> 0, op |-> "", b |-> 0]
    /\ pc' = "returned"
    /\ UNCHANGED <<argv, line, evald, out, oscmd, status>>

RoundTrip ==
    /\ pc = "start"
    /\ \E a \in Numbers, op \in OpChars, b \in Numbers :
       \E s \in {Str(a) \o <<" ", op, " ">> \o Str(b)} :
        /\ call' = [f |-> "format", a |-> a, op |-> op, b |-> b]
        /\ text' = s
        /\ parsed' = parse_expression(s)
    /\ pc' = "returned"
    /\ UNCHANGED <<argv, line, evald, out, oscmd, status>>

NextParse ==
    \/ CallParse
    \/ RoundTrip

SpecParse == Init /\ [][NextParse]_vars

\* The match of EXPR_RE is unique on every line read.
MatchUnique == Cardinality(EXPR_RE(text)) <= 1

(***************************************************************************)
(* What the properties below speak of, stated on the input line and on     *)
(* the output alone.                                                       *)
(***************************************************************************)
IsBlank(s) == \A i \in 1..Len(s) : s[i] \in {" ", "\t"}

\* s, without the whitespace at its ends, is the word W in some letter
\* case; W gives the two cases of each letter.
SaysWord(s, W) ==
    \E i \in 1..Len(s) :
        /\ i + Len(W) - 1 <= Len(s)
        /\ IsBlank(SubSeq(s, 1, i - 1))
        /\ \A j \in 1..Len(W) : s[i + j - 1] \in W[j]
        /\ IsBlank(SubSeq(s, i + Len(W), Len(s)))

WordExit == <<{"e", "E"}, {"x", "X"}, {"i", "I"}, {"t", "T"}>>

WordQuit == <<{"q", "Q"}, {"u", "U"}, {"i", "I"}, {"t", "T"}>>

WordHelp == <<{"h", "H"}, {"e", "E"}, {"l", "L"}, {"p", "P"}>>

WordClear == <<{"c", "C"}, {"l", "L"}, {"e", "E"}, {"a", "A"}, {"r", "R"}>>

SaysExit(s) == SaysWord(s, WordExit) \/ SaysWord(s, WordQuit)

\* The program runs the interactive loop.
Interactive ==
    /\ pc \in {"input", "iter", "done", "crashed"}
    /\ \A i \in DOMAIN argv : argv[i] # "--test"

\* The goodbye lines.
Goodbye == << <<"Goodbye.">> >>

Exiting == << <<"\nExiting.">> >>

\* The read of a line failed (end of input or interrupt).
ReadFailed == Interactive /\ pc = "done" /\ line = <<>> /\ out = Exiting

\* A line was read and the iteration for it has run.
Handled == Interactive /\ pc \in {"iter", "done", "crashed"} /\ ~ReadFailed

\* Handling the line raised an error: in parse_expression, in evaluate, or
\* in the display of a result that is no finite number.
ErrorRaised ==
    \/ parsed.tag \notin {"none", "ok"}
    \/ evald.tag \notin {"none", "ok"}
    \/ evald.tag = "ok" /\ evald.val.k # "fin"

\* C1: every error raised while handling an input line other than exit/quit
\* is recovered in that iteration: exactly one line starting with 'Error: '
\* is printed, the shell awaits input again and the process does not
\* terminate, also when the result is too large to convert to an integer.
C1_ErrorsRecovered ==
    (Handled /\ ~SaysExit(line)) =>
        /\ pc = "iter"
        /\ status \notin {0, 1}
        /\ ErrorRaised => Len(out) = 1 /\ out[1][1] = "Error: "

\* C2: the shell terminates exactly when the trimmed line is exit or quit
\* in any letter case, or the read fails; then a goodbye line is printed
\* and main returns status 0.  No other line makes the shell terminate.
C2_TerminatesOnlyOnExit ==
    Interactive =>
        /\ pc \in {"done", "crashed"} <=> (ReadFailed \/ SaysExit(line))
        /\ pc \in {"done", "crashed"} =>
              /\ status = 0
              /\ out \in {Goodbye, Exiting}
        /\ pc \in {"input", "iter"} => status \notin {0, 1}

DivZeroLine == << <<"Error: ", "Division by zero">> >>

\* q is a / b as IEEE-754 division gives it, for b # 0.
IsQuotient(q, a, b) ==
    CASE a.k = "nan" \/ b.k = "nan" -> q.k = "nan"
      [] a.k = "inf" /\ b.k = "inf" -> q.k = "nan"
      [] a.k = "inf" -> q.k = "inf" /\ (q.n > 0 <=> ((a.n > 0) <=> (b.n > 0)))
      [] b.k = "inf" -> q.k = "fin" /\ q.n = 0
      [] OTHER -> q.k = "fin" /\ q.d # 0 /\ q.n * b.n * a.d = a.n * b.d * q.d

\* Lines whose right operand spells zero: 1 / 0, 1 / 0.0, 5 / -0, -1/+0.0, 1/.0
ZeroSpellings ==
    { <<"1", " ", "/", " ", "0">>, <<"1", " ", "/", " ", "0", ".", "0">>,
      <<"5", " ", "/", " ", "-", "0">>, <<"-", "1", "/", "+", "0", ".", "0">>,
      <<"1", "/", ".", "0">> }

\* C5: evaluate(a, '/', b) raises the division-by-zero error exactly when
\* b equals zero, whatever a is, and returns a / b otherwise; a shell line
\* that parses with operator / and a zero right operand (in any spelling of
\* zero) prints exactly 'Error: Division by zero' and no result, and the
\* shell continues.
C5_DivisionByZero ==
    /\ (call.f = "evaluate" /\ call.op = "/") =>
          IF call.b.k = "fin" /\ call.b.n = 0
          THEN evald.tag = "ZeroDivisionError"
          ELSE evald.tag = "ok" /\ IsQuotient(evald.val, call.a, call.b)
    /\ Handled =>
          /\ (parsed.tag = "ok" /\ parsed.op = "/" /\ parsed.b.k = "fin" /\ parsed.b.n = 0)
                <=> out = DivZeroLine
          /\ text \in ZeroSpellings => out = DivZeroLine
          /\ out = DivZeroLine => pc = "iter" /\ status \notin {0, 1}

C5_Witness ==
    /\ Handled
    /\ line = <<"-", "1", "/", "+", "0", ".", "0">>
    /\ out = DivZeroLine
    /\ pc = "iter"

\* A line that is one integer token: digits, with '-' first when negative.
IsIntToken(l) ==
    /\ \E i \in 1..Len(l) : l[i] \in {"0", "1", "2", "3", "4", "5", "6", "7", "8", "9"}
    /\ \A i \in 1..Len(l) :
          l[i] \in {"0", "1", "2", "3", "4", "5", "6", "7", "8", "9"} \/ (i = 1 /\ l[i] = "-")

\* A line that is a decimal with a fractional part that is not zero (or a
\* value below one in exponent notation).
IsDecimalToken(l) ==
    \/ \E i \in 1..Len(l) :
          /\ l[i] = "."
          /\ \E j \in (i + 1)..Len(l) : l[j] \in {"1", "2", "3", "4", "5", "6", "7", "8", "9"}
          /\ \A j \in 1..Len(l) : l[j] # "e"
    \/ \E i \in 1..(Len(l) - 1) : l[i] = "e" /\ l[i + 1] = "-"

\* C6: for every line that parses and evaluates, the shell prints the result:
\* as an integer token without a decimal point when the result has no
\* fractional part ('4 * 2.5' prints 10, '  -2.5 * 4' prints -10, '12 + 3'
\* prints 15), as a decimal with its fractional part otherwise; never a
\* trailing '.0', never a truncated value.
C6_ResultDisplayed ==
    (Handled /\ parsed.tag = "ok" /\ evald.tag = "ok") =>
        /\ Len(out) = 1
        /\ IF evald.val.d = 1 THEN IsIntToken(out[1]) ELSE IsDecimalToken(out[1])
        /\ text = <<"4", " ", "*", " ", "2", ".", "5">> => out[1] = <<"1", "0">>
        /\ text = <<"-", "2", ".", "5", " ", "*", " ", "4">> => out[1] = <<"-", "1", "0">>
        /\ text = <<"1", "2", " ", "+", " ", "3">> => out[1] = <<"1", "5">>

\* C7: with --test among the arguments main runs the self-tests and never
\* enters the interactive loop (no line is read); a run that completes
\* reports 'Ran 6 tests: P passed, F failed' with P + F = 6 and returns 0
\* only if all 6 passed and 1 otherwise; a run an assertion aborts prints no
\* report and exits with a non-zero status.
C7_TestMode ==
    ((\E i \in DOMAIN argv : argv[i] = "--test") /\ pc # "start") =>
        /\ pc \in {"done", "crashed"}
        /\ line = <<>> /\ text = <<>> /\ parsed.tag = "none" /\ oscmd = <<>>
        /\ pc = "done" =>
              /\ Len(out) = 1
              /\ Len(out[1]) = 7
              /\ <<out[1][1], out[1][2], out[1][3], out[1][5], out[1][7]>>
                    = <<"Ran ", "6", " tests: ", " passed, ", " failed">>
              /\ DigitVal(out[1][4]) + DigitVal(out[1][6]) = 6
              /\ status = 0 <=> DigitVal(out[1][4]) = 6
              /\ status \in {0, 1}
        /\ pc = "crashed" => status = 1 /\ out = <<>>

C7_Witness ==
    /\ pc = "done"
    /\ argv = <<"-v", "--test">>
    /\ status = 0
    /\ out = << <<"Ran ", "6", " tests: ", "6", " passed, ", "0", " failed">> >>

\* C9: command dispatch comes before parsing and ignores letter case and
\* surrounding whitespace: for an empty line and for help, clear, exit and
\* quit, parse_expression is not called and no 'Error:' line is printed; an
\* empty line prints nothing, help prints the help text, clear issues the
\* screen-clear action, and after these three the shell awaits input again.
\* Every other line is given to the parser.
C9_CommandsBeforeParsing ==
    Handled =>
        IF IsBlank(line)
        THEN pc = "iter" /\ parsed.tag = "none" /\ out = <<>> /\ oscmd = <<>>
        ELSE IF SaysWord(line, WordHelp)
        THEN pc = "iter" /\ parsed.tag = "none" /\ out = print_help /\ oscmd = <<>>
        ELSE IF SaysWord(line, WordClear)
        THEN /\ pc = "iter" /\ parsed.tag = "none" /\ out = <<>>
             /\ oscmd \in {<<"clear">>, <<"cls">>}
        ELSE IF SaysExit(line)
        THEN /\ parsed.tag = "none" /\ oscmd = <<>>
             /\ \A i \in DOMAIN out : out[i][1] # "Error: "
        ELSE parsed.tag # "none" /\ oscmd = <<>>

C9_Witness ==
    /\ Handled
    /\ line = <<" ", "C", "l", "E", "a", "R">>
    /\ oscmd = <<"clear">>
    /\ pc = "iter"

\* C10: evaluate raises the unsupported-operator error for every operator
\* outside + - * /, whatever a and b are (b = 0 included); through the shell
\* this cannot happen: every operator parse_expression returns is one of
\* + - * /, and no line makes the shell print 'Unsupported operator'.
C10_UnsupportedOperator ==
    /\ (call.f = "evaluate" /\ call.op \notin {"+", "-", "*", "/"}) =>
          /\ evald.tag = "ValueError"
          /\ evald.msg = <<"Unsupported operator: ", call.op>>
    /\ Interactive =>
          /\ parsed.tag = "ok" => parsed.op \in {"+", "-", "*", "/"}
          /\ evald.tag # "ValueError"
          /\ \A i \in DOMAIN out : \A j \in DOMAIN out[i] : out[i][j] # "Unsupported operator: "

C10_Witness ==
    /\ call.f = "evaluate"
    /\ call.op = "%"
    /\ call.b = Fin(0, 1)
    /\ evald.tag = "ValueError"

(***************************************************************************)
(* The shape of an expression line, read off the line itself.              *)
(***************************************************************************)
Unsigned(tok) == IF tok # <<>> /\ tok[1] \in {"-", "+"} THEN Tail(tok) ELSE tok

\* A number as the documentation words it: an optional sign, digits, an
\* optional decimal point, digits, with a digit on at least one side of the
\* point ('5', '.5', '5.', '-5.25').
NumberAsWorded(tok) ==
    LET b == Unsigned(tok)
    IN  /\ \A i \in 1..Len(b) : b[i] \in Digit \cup {"."}
        /\ Cardinality({i \in 1..Len(b) : b[i] = "."}) <= 1
        /\ \E i \in 1..Len(b) : b[i] \in Digit

\* A number with a digit after the point when there is a point, so that
\* the last character is a digit ('5', '.5', '-5.25', not '5.').
NumberEndingInDigit(tok) == NumberAsWorded(tok) /\ tok[Len(tok)] \in Digit

\* The ways s splits into blanks, a number, blanks, an operator, blanks, a
\* number, blanks: <<first and last position of the left number, position
\* of the operator, first and last position of the right number>>.
Shapes(s, IsNumber(_)) ==
    UNION {UNION {UNION {UNION {
        {<<i1, j1, k, i2, j2>> : j2 \in {x \in i2..Len(s) :
                /\ IsNumber(SubSeq(s, i2, x))
                /\ IsBlank(SubSeq(s, x + 1, Len(s)))}}
            : i2 \in {x \in (k + 1)..Len(s) : IsBlank(SubSeq(s, k + 1, x - 1))}}
            : k \in {x \in (j1 + 1)..Len(s) :
                s[x] \in {"+", "-", "*", "/"} /\ IsBlank(SubSeq(s, j1 + 1, x - 1))}}
            : j1 \in {x \in i1..Len(s) : IsNumber(SubSeq(s, i1, x))}}
            : i1 \in {x \in 1..Len(s) : IsBlank(SubSeq(s, 1, x - 1))}}

\* C3 as stated: parse_expression returns a triple for every line of the
\* shape <number><whitespace><op><whitespace><number>, a number being as
\* the documentation words it ('5.' included).
C3_AsStated ==
    (call.f = "parse_expression" /\ Shapes(text, NumberAsWorded) # {}) =>
        parsed.tag = "ok"

\* C3, amended: parse_expression returns the triple (left, operator, right)
\* for every line of that shape whose numbers have a digit after the point
\* when they have a point; whitespace around the line and around the
\* operator is ignored.
C3_ParsesShape ==
    call.f = "parse_expression" =>
        \A m \in Shapes(text, NumberEndingInDigit) :
            /\ parsed.tag = "ok"
            /\ parsed.a = float(SubSeq(text, m[1], m[2]))
            /\ parsed.op = text[m[3]]
            /\ parsed.b = float(SubSeq(text, m[4], m[5]))

C3_Witness ==
    /\ call.f = "parse_expression"
    /\ text = <<".", "5", "\t", "+", "\t", "5">>
    /\ parsed = [tag |-> "ok", a |-> [k |-> "fin", n |-> 1, d |-> 2], op |-> "+",
                 b |-> [k |-> "fin", n |-> 5, d |-> 1], msg |-> <<>>]

\* C4: parse_expression fails with the invalid-expression error, and
\* returns no triple, for every line that is not of the shape
\* <number><whitespace><op><whitespace><number>: the empty and the blank
\* line, a single number, three operands, a non-numeric token, an operator
\* outside + - * / (such as %).
C4_RejectsOtherShapes ==
    call.f = "parse_expression" =>
        /\ Shapes(text, NumberAsWorded) = {} =>
              /\ parsed.tag = "ValueError"
              /\ parsed.msg = <<"Invalid expression. Expected format: <number> <op> <number>">>
        /\ text \in { <<>>, <<" ">>, <<" ", " ">>, <<"1">>, <<"-", "1", ".", "0">>,
                      <<"1", " ", "+", " ", "2", " ", "+", " ", "3">>,
                      <<"1", " ", "+", " ", "x">>, <<"b", "a", "n", "a", "n", "a">>,
                      <<"1", " ", "%", " ", "2">>, <<"1", "%", "1">> }
              => parsed.tag = "ValueError"

C4_Witness ==
    /\ call.f = "parse_expression"
    /\ text = <<"1", " ", "+", " ", "2", " ", "+", " ", "3">>
    /\ parsed.tag = "ValueError"

\* The canonical text of x is positional: x is an int, or a finite float
\* that repr() writes without an exponent (zero, or 1e-4 <= |x| < 1e16).
Positional(x) ==
    x.t = "int" \/ (x.k = "fin" /\ x.digits.decpt > -4 /\ x.digits.decpt <= 16)

RoundTrips ==
    /\ parsed.tag = "ok"
    /\ Same(call.a, parsed.a)
    /\ parsed.op = call.op
    /\ Same(call.b, parsed.b)

\* C8 as stated: for any numbers a, b and any op of + - * /, parsing the
\* canonical text of a, a space, op, a space, the canonical text of b
\* returns exactly (a, op, b).
C8_AsStated == call.f = "format" => RoundTrips

\* C8, amended: the round trip holds for the numbers whose canonical text
\* is positional and which a float holds exactly (ints a float represents
\* exactly, and finite floats repr() writes without an exponent), negative
\* ones included ('1 - -2' returns (1, '-', -2)).  The ints of Numbers are
\* small, where float() of the digits is exact.
C8_RoundTrip ==
    (call.f = "format" /\ Positional(call.a) /\ Positional(call.b)) => RoundTrips

C8_Witness ==
    /\ call.f = "format"
    /\ text = <<"1", " ", "-", " ", "-", "2">>
    /\ parsed.tag = "ok"
    /\ parsed.op = "-"
    /\ parsed.b = [k |-> "fin", n |-> -2, d |-> 1]

====
